---- MODULE Spec2Model ----
(***************************************************************************)
(* Model of internal_functions/edx.py: generate_spectra, get_elements and  *)
(* generate_heatmap.  One behaviour is one call of one of the three        *)
(* functions: Init draws the arguments and the content of the files the    *)
(* call reads, the actions are the steps of the function's body.           *)
(*                                                                         *)
(* Text is a sequence of one-character strings, so that int(), float(),    *)
(* split() and the f-string of line 88 are computed on characters.  The    *)
(* floats of the calibration are integer-valued decimals.                  *)
(***************************************************************************)
EXTENDS Integers, Sequences, FiniteSets, TLC

VARIABLES fn, pc, foldername, x_pos, y_pos, element_edx, with_plot, spx, xlsx,
          x_idx, y_idx, filepath, nodes, it, sub,
          voltage, working_distance, energy_step, zero_energy,
          edx_spectra, results_ext, ret

vars == <<fn, pc, foldername, x_pos, y_pos, element_edx, with_plot, spx, xlsx,
          x_idx, y_idx, filepath, nodes, it, sub,
          voltage, working_distance, energy_step, zero_energy,
          edx_spectra, results_ext, ret>>

-----------------------------------------------------------------------------
(* Python values *)

\* None, for the string-valued arguments
None == "None"
\* a position argument is <<>> (None) or <<p>>
NonePos == <<>>
\* a file that does not exist, and a file with its content
NoFile == [exists |-> FALSE, content |-> <<>>]
File(content) == [exists |-> TRUE, content |-> content]
\* a local that is not bound yet
Unbound == [bound |-> FALSE, v |-> <<>>]
Bound(v) == [bound |-> TRUE, v |-> v]

Digits == {"0", "1", "2", "3", "4", "5", "6", "7", "8", "9"}

DigitVal(c) ==
  CASE c = "0" -> 0 [] c = "1" -> 1 [] c = "2" -> 2 [] c = "3" -> 3
    [] c = "4" -> 4 [] c = "5" -> 5 [] c = "6" -> 6 [] c = "7" -> 7
    [] c = "8" -> 8 [] c = "9" -> 9

RECURSIVE LStrip(_)
LStrip(t) == IF t # <<>> /\ Head(t) = " " THEN LStrip(Tail(t)) ELSE t

RECURSIVE RStrip(_)
RStrip(t) ==
  IF t # <<>> /\ t[Len(t)] = " " THEN RStrip(SubSeq(t, 1, Len(t) - 1)) ELSE t

RECURSIVE DigitsVal(_)
DigitsVal(t) ==
  IF t = <<>> THEN 0 ELSE 10 * DigitsVal(SubSeq(t, 1, Len(t) - 1)) + DigitVal(t[Len(t)])

\* int(text): surrounding blanks are stripped, one sign is allowed, the rest
\* must be one or more decimal digits; anything else is a ValueError
PyInt(t) ==
  LET s    == RStrip(LStrip(t))
      neg  == s # <<>> /\ Head(s) = "-"
      sgn  == s # <<>> /\ Head(s) \in {"-", "+"}
      body == IF sgn THEN Tail(s) ELSE s
      ok   == body # <<>> /\ \A i \in 1..Len(body) : body[i] \in Digits
  IN  [ok |-> ok,
       v  |-> IF ok THEN (IF neg THEN 0 - DigitsVal(body) ELSE DigitsVal(body)) ELSE 0]

\* float(text), on the integer-valued decimals of the files modelled here
PyFloat(t) == PyInt(t)

\* text.split(sep): the pieces between the separators, [''] for ''
RECURSIVE PySplit(_, _)
PySplit(t, sep) ==
  IF \A i \in 1..Len(t) : t[i] # sep
  THEN <<t>>
  ELSE LET k == CHOOSE i \in 1..Len(t) :
                  t[i] = sep /\ \A j \in 1..(i - 1) : t[j] # sep
       IN  <<SubSeq(t, 1, k - 1)>> \o PySplit(SubSeq(t, k + 1, Len(t)), sep)

\* int() taken for a floor
IntFloor(num, den) == num \div den

\* int(q) of the float q = num/den, den > 0: truncation toward zero
IntTrunc(num, den) ==
  IF num >= 0 THEN num \div den ELSE 0 - ((0 - num) \div den)

-----------------------------------------------------------------------------
(* Figures and exceptions: the value a call ends with *)

\* the words a figure's title is formatted from
NoTitle == [folder |-> "", x |-> <<>>, y |-> <<>>, element |-> ""]
SpectrumTitle(f, x, y) == [folder |-> f, x |-> x, y |-> y, element |-> ""]
HeatmapTitle(e) == [folder |-> "", x |-> <<>>, y |-> <<>>, element |-> e]

Fig(trace, xs, ys, zs, h, w, title) ==
  [kind |-> "fig", trace |-> trace, x |-> xs, y |-> ys, z |-> zs,
   height |-> h, width |-> w, title |-> title, data |-> <<>>, exc |-> ""]

Raise(exc) ==
  [kind |-> "raise", trace |-> "", x |-> <<>>, y |-> <<>>, z |-> <<>>,
   height |-> 0, width |-> 0, title |-> NoTitle, data |-> <<>>, exc |-> exc]

NoRet ==
  [kind |-> "running", trace |-> "", x |-> <<>>, y |-> <<>>, z |-> <<>>,
   height |-> 0, width |-> 0, title |-> NoTitle, data |-> <<>>, exc |-> ""]

\* a list, and a pair of two lists, returned
ListRet(l) ==
  [kind |-> "list", trace |-> "", x |-> l, y |-> <<>>, z |-> <<>>,
   height |-> 0, width |-> 0, title |-> NoTitle, data |-> <<>>, exc |-> ""]

PairRet(l, d) ==
  [kind |-> "pair", trace |-> "", x |-> l, y |-> <<>>, z |-> <<>>,
   height |-> 0, width |-> 0, title |-> NoTitle, data |-> d, exc |-> ""]

\* go.Figure(data=go.Scatter()) with height=700, width=1300
empty_fig_spectra == Fig("Scatter", <<>>, <<>>, <<>>, 700, 1300, NoTitle)

-----------------------------------------------------------------------------
(* generate_spectra *)

start_x == -40
start_y == -40
step == 5

\* line 39 without its + 1
ToIndexNoOffset(p, start) == IntTrunc(p - start, step)

\* x_idx of line 39: int((x_pos - start_x) / step + 1).  The quotient of two
\* integers by 5 plus 1 is (p - start + step)/step; the float that Python
\* computes for it has the same integer part.
ToIndex(p, start) == IntTrunc((p - start) + step, step)

\* Metadata to keep for displaying quantification results
params == {"Atom", "XLine", "AtomPercent", "MassPercent", "NetIntens",
           "Background", "Sigma"}

\* an element of the parsed tree: its tag, its Name attribute, its text and
\* its descendants in document order
Elem(tag, name, text, kids) ==
  [tag |-> tag, name |-> name, text |-> text, kids |-> kids]

RootElem == Elem("TRTSpectrum", "", <<>>, <<>>)

\* root.iter(): the root, then every element in document order, each followed
\* by its descendants
RECURSIVE Preorder(_)
Preorder(doc) ==
  IF doc = <<>> THEN <<>>
  ELSE <<Head(doc)>> \o Head(doc).kids \o Preorder(Tail(doc))

RootIter(doc) == <<RootElem>> \o Preorder(doc)

\* elm.iter() of line 83: the element itself, then its descendants
ElmIter(e) == <<Elem(e.tag, e.name, e.text, <<>>)>> \o e.kids

spectra_locals == <<x_idx, y_idx, filepath, nodes, it, sub, voltage,
                    working_distance, energy_step, zero_energy, edx_spectra,
                    results_ext>>
inputs == <<fn, foldername, x_pos, y_pos, element_edx, with_plot, spx, xlsx>>

\* an exception leaves the function
Throw(exc) == pc' = "done" /\ ret' = Raise(exc)

\* line 39
ComputeIndex ==
  /\ fn = "generate_spectra" /\ pc = "l39"
  /\ IF x_pos = NonePos \/ y_pos = NonePos
     THEN Throw("TypeError") /\ UNCHANGED <<x_idx, y_idx>>
     ELSE /\ x_idx' = ToIndex(x_pos[1], start_x)
          /\ y_idx' = ToIndex(y_pos[1], start_y)
          /\ pc' = "l42"
          /\ ret' = ret
  /\ UNCHANGED <<inputs, filepath, nodes, it, sub, voltage, working_distance,
                 energy_step, zero_energy, edx_spectra, results_ext>>

\* lines 42-43
ReturnEmptySpectra ==
  /\ fn = "generate_spectra" /\ pc = "l42"
  /\ foldername = None
  /\ pc' = "done"
  /\ ret' = empty_fig_spectra
  /\ UNCHANGED <<inputs, spectra_locals>>

\* lines 45-61
BuildPath ==
  /\ fn = "generate_spectra" /\ pc = "l42"
  /\ foldername # None
  /\ filepath' = <<foldername, x_idx, y_idx>>
  /\ voltage' = 0
  /\ energy_step' = 0
  /\ zero_energy' = 0
  /\ results_ext' = <<>>
  /\ pc' = "l64"
  /\ UNCHANGED <<inputs, x_idx, y_idx, nodes, it, sub, working_distance,
                 edx_spectra, ret>>

\* lines 64-65
ParseFile ==
  /\ fn = "generate_spectra" /\ pc = "l64"
  /\ IF ~spx.exists
     THEN Throw("FileNotFoundError") /\ UNCHANGED <<nodes, it>>
     ELSE /\ nodes' = RootIter(spx.content)
          /\ it' = 1
          /\ pc' = "loop"
          /\ ret' = ret
  /\ UNCHANGED <<inputs, x_idx, y_idx, filepath, sub, voltage,
                 working_distance, energy_step, zero_energy, edx_spectra,
                 results_ext>>

InLoop == fn = "generate_spectra" /\ pc = "loop" /\ it <= Len(nodes)
elm == nodes[it]

\* lines 67-68
VisitPrimaryEnergy ==
  /\ InLoop /\ elm.tag = "PrimaryEnergy"
  /\ LET f == PyFloat(elm.text)
     IN  IF ~f.ok
         THEN Throw("ValueError") /\ UNCHANGED <<voltage, it>>
         ELSE voltage' = f.v /\ it' = it + 1 /\ UNCHANGED <<pc, ret>>
  /\ UNCHANGED <<inputs, x_idx, y_idx, filepath, nodes, sub, working_distance,
                 energy_step, zero_energy, edx_spectra, results_ext>>

\* lines 69-70
VisitWorkingDistance ==
  /\ InLoop /\ elm.tag = "WorkingDistance"
  /\ LET f == PyFloat(elm.text)
     IN  IF ~f.ok
         THEN Throw("ValueError") /\ UNCHANGED <<working_distance, it>>
         ELSE working_distance' = Bound(f.v) /\ it' = it + 1 /\ UNCHANGED <<pc, ret>>
  /\ UNCHANGED <<inputs, x_idx, y_idx, filepath, nodes, sub, voltage,
                 energy_step, zero_energy, edx_spectra, results_ext>>

\* lines 71-72
VisitCalibLin ==
  /\ InLoop /\ elm.tag = "CalibLin"
  /\ LET f == PyFloat(elm.text)
     IN  IF ~f.ok
         THEN Throw("ValueError") /\ UNCHANGED <<energy_step, it>>
         ELSE energy_step' = f.v /\ it' = it + 1 /\ UNCHANGED <<pc, ret>>
  /\ UNCHANGED <<inputs, x_idx, y_idx, filepath, nodes, sub, voltage,
                 working_distance, zero_energy, edx_spectra, results_ext>>

\* lines 73-74
VisitCalibAbs ==
  /\ InLoop /\ elm.tag = "CalibAbs"
  /\ LET f == PyFloat(elm.text)
     IN  IF ~f.ok
         THEN Throw("ValueError") /\ UNCHANGED <<zero_energy, it>>
         ELSE zero_energy' = f.v /\ it' = it + 1 /\ UNCHANGED <<pc, ret>>
  /\ UNCHANGED <<inputs, x_idx, y_idx, filepath, nodes, sub, voltage,
                 working_distance, energy_step, edx_spectra, results_ext>>

\* the list of lines 77-80: ((i + 1) * energy_step + zero_energy, int(counts))
\* for i, counts in enumerate(text.split(",")); position k here is i + 1
SpectraOf(text, lin, abs) ==
  LET parts == PySplit(text, ",")
  IN  [k \in 1..Len(parts) |-> <<k * lin + abs, PyInt(parts[k]).v>>]

\* lines 75-81
VisitChannels ==
  /\ InLoop /\ elm.tag = "Channels"
  /\ LET parts == PySplit(elm.text, ",")
     IN  IF \E k \in 1..Len(parts) : ~PyInt(parts[k]).ok
         THEN Throw("ValueError") /\ UNCHANGED <<edx_spectra, it>>
         ELSE /\ edx_spectra' = Bound(SpectraOf(elm.text, energy_step, zero_energy))
              /\ it' = it + 1
              /\ UNCHANGED <<pc, ret>>
  /\ UNCHANGED <<inputs, x_idx, y_idx, filepath, nodes, sub, voltage,
                 working_distance, energy_step, zero_energy, results_ext>>

\* lines 82-83
EnterResults ==
  /\ InLoop /\ elm.tag = "ClassInstance" /\ elm.name = "Results"
  /\ pc' = "results"
  /\ sub' = 1
  /\ UNCHANGED <<inputs, x_idx, y_idx, filepath, nodes, it, voltage,
                 working_distance, energy_step, zero_energy, edx_spectra,
                 results_ext, ret>>

\* an element no branch of lines 67-100 changes the modelled state for
SkipElm ==
  /\ InLoop
  /\ elm.tag \notin {"PrimaryEnergy", "WorkingDistance", "CalibLin", "CalibAbs",
                     "Channels"}
  /\ ~(elm.tag = "ClassInstance" /\ elm.name = "Results")
  /\ it' = it + 1
  /\ UNCHANGED <<inputs, pc, x_idx, y_idx, filepath, nodes, sub, voltage,
                 working_distance, energy_step, zero_energy, edx_spectra,
                 results_ext, ret>>

InResults ==
  fn = "generate_spectra" /\ pc = "results" /\ sub <= Len(ElmIter(elm))
child == ElmIter(elm)[sub]

walk_frame == <<inputs, x_idx, y_idx, filepath, nodes, voltage,
                working_distance, energy_step, zero_energy, edx_spectra>>

\* lines 84-85
ChildResult ==
  /\ InResults /\ child.tag = "Result"
  /\ results_ext' = Append(results_ext, <<>>)
  /\ sub' = sub + 1
  /\ UNCHANGED <<walk_frame, pc, it, ret>>

\* the pair line 88 or line 90 appends for a whitelisted child
Recorded(c) ==
  IF c.tag = "Atom" /\ PyInt(c.text).v < 10
  THEN <<c.tag, <<"0">> \o c.text>>
  ELSE <<c.tag, c.text>>

\* results_ext[-1].append(pair)
AppendToLast(recs, pair) ==
  [recs EXCEPT ![Len(recs)] = Append(recs[Len(recs)], pair)]

\* lines 86-90
ChildParam ==
  /\ InResults /\ child.tag \in params
  /\ IF child.tag = "Atom" /\ ~PyInt(child.text).ok
     THEN Throw("ValueError") /\ UNCHANGED <<results_ext, sub>>
     ELSE IF results_ext = <<>>
     THEN Throw("IndexError") /\ UNCHANGED <<results_ext, sub>>
     ELSE /\ results_ext' = AppendToLast(results_ext, Recorded(child))
          /\ sub' = sub + 1
          /\ UNCHANGED <<pc, ret>>
  /\ UNCHANGED <<walk_frame, it>>

\* lines 91-92 without the break: the walk goes on to the next child
ChildExtResultsNoBreak ==
  /\ InResults /\ child.tag = "ExtResults"
  /\ sub' = sub + 1
  /\ UNCHANGED <<walk_frame, pc, it, results_ext, ret>>

\* lines 91-92: break, and the loop of line 66 goes on
ChildExtResults ==
  /\ InResults /\ child.tag = "ExtResults"
  /\ pc' = "loop"
  /\ it' = it + 1
  /\ UNCHANGED <<walk_frame, sub, results_ext, ret>>

\* a child that matches no branch of lines 84-92
ChildSkip ==
  /\ InResults
  /\ child.tag \notin ({"Result", "ExtResults"} \cup params)
  /\ sub' = sub + 1
  /\ UNCHANGED <<walk_frame, pc, it, results_ext, ret>>

\* the loop of line 83 is exhausted
EndResults ==
  /\ fn = "generate_spectra" /\ pc = "results" /\ sub > Len(ElmIter(elm))
  /\ pc' = "loop"
  /\ it' = it + 1
  /\ UNCHANGED <<walk_frame, sub, results_ext, ret>>

\* lines 103-116
BuildFigure ==
  /\ fn = "generate_spectra" /\ pc = "loop" /\ it > Len(nodes)
  /\ pc' = "done"
  /\ ret' = IF ~edx_spectra.bound
            THEN Raise("UnboundLocalError")
            ELSE Fig("Scatter",
                     [k \in 1..Len(edx_spectra.v) |-> edx_spectra.v[k][1]],
                     [k \in 1..Len(edx_spectra.v) |-> edx_spectra.v[k][2]],
                     <<>>, 0, 0, SpectrumTitle(foldername, x_pos, y_pos))
  /\ UNCHANGED <<inputs, spectra_locals>>

-----------------------------------------------------------------------------
(* get_elements and generate_heatmap *)

\* a cell of the worksheet: None, a number, a string, or the string
\* "Spectrum_(a,b)" with the texts a and b.  No other string of the model
\* starts with "Spectrum_".
NoneCell == [kind |-> "none", s |-> "", n |-> 0, a |-> <<>>, b |-> <<>>]
Num(n) == [kind |-> "num", s |-> "", n |-> n, a |-> <<>>, b |-> <<>>]
Str(s) == [kind |-> "str", s |-> s, n |-> 0, a |-> <<>>, b |-> <<>>]
Label(a, b) == [kind |-> "label", s |-> "", n |-> 0, a |-> a, b |-> b]

\* float(cell): a number as it is, a non-numeric string a ValueError, None a
\* TypeError
CellFloat(c) ==
  [ok |-> c.kind = "num", v |-> c.n,
   exc |-> IF c.kind = "none" THEN "TypeError" ELSE "ValueError"]

\* the loop of lines 154-157 from column k on (k = index + 1): the indexes
\* kept, or the exception float() raises
RECURSIVE IndexTab(_, _)
IndexTab(row, k) ==
  IF k > Len(row) THEN [exc |-> "", tab |-> <<>>]
  ELSE LET rest == IndexTab(row, k + 1)
       IN  IF k - 1 > 0 /\ row[k].kind # "none"
           THEN IF ~CellFloat(row[k]).ok
                THEN [exc |-> CellFloat(row[k]).exc, tab |-> <<>>]
                ELSE IF rest.exc # "" THEN rest
                ELSE IF CellFloat(row[k]).v # 0
                THEN [exc |-> "", tab |-> <<k>> \o rest.tab]
                ELSE rest
           ELSE rest

\* LIST_DATA[-2] in the place of LIST_DATA[-3]
TotalsRowOffByOne(LIST_DATA) == LIST_DATA[Len(LIST_DATA) - 1]

\* LIST_DATA[-3]
TotalsRow(LIST_DATA) == LIST_DATA[Len(LIST_DATA) - 2]

\* the FileNotFoundError of line 142 let through
MissingWorkbookRaises == Raise("FileNotFoundError")

\* lines 143-144: except FileNotFoundError: return []
MissingWorkbook == ListRet(<<>>)

\* get_elements(foldername, with_plot), lines 140-163, on the workbook file
GetElements(file, plot) ==
  IF ~file.exists THEN MissingWorkbook
  ELSE LET LIST_DATA == file.content
       IN  IF Len(LIST_DATA) < 3 THEN Raise("IndexError")
           ELSE LET index_tab == IndexTab(TotalsRow(LIST_DATA), 1)
                    elm_options ==
                      [k \in 1..Len(index_tab.tab) |-> LIST_DATA[1][index_tab.tab[k]]]
                IN  IF index_tab.exc # "" THEN Raise(index_tab.exc)
                    ELSE IF plot THEN PairRet(elm_options, LIST_DATA)
                    ELSE ListRet(elm_options)

table_frame == <<inputs, spectra_locals>>

\* a call of get_elements
CallGetElements ==
  /\ fn = "get_elements" /\ pc = "call"
  /\ pc' = "done"
  /\ ret' = GetElements(xlsx, with_plot)
  /\ UNCHANGED table_frame

step_x == 5
step_y == 5
\* the bound of line 209
Diamond == 60

\* go.Figure(data=go.Heatmap()) with height=800, width=800
empty_fig_heatmap == Fig("Heatmap", <<>>, <<>>, <<>>, 800, 800, NoTitle)

\* lines 206-208
ToPosition(i, start, stp) == (i - 1) * stp + start

Abs(n) == IF n < 0 THEN 0 - n ELSE n

\* row.index(e): the first position holding e, 0-based, or a ValueError
RowIndex(row, e) ==
  IF \E k \in 1..Len(row) : row[k] = e
  THEN [ok |-> TRUE,
        v |-> (CHOOSE k \in 1..Len(row) :
                 row[k] = e /\ \A j \in 1..(k - 1) : row[j] # e) - 1]
  ELSE [ok |-> FALSE, v |-> 0]

\* the state of the loop of lines 201-212
LoopState(index, X, Y, Z, exc) ==
  [index |-> index, X_POS |-> X, Y_POS |-> Y, ELM |-> Z, exc |-> exc]

\* one row of the loop, lines 202-212
HeatRow(st, row, e) ==
  IF row[1] = Str("Spectrum")
  THEN LET f == RowIndex(row, e)
       IN  IF f.ok THEN [st EXCEPT !.index = Bound(f.v)]
           ELSE [st EXCEPT !.exc = "ValueError"]
  ELSE IF row[1].kind \in {"none", "num"}
  THEN [st EXCEPT !.exc = "AttributeError"]
  ELSE IF row[1].kind = "label"
  THEN LET x_index == PyInt(row[1].a)
           y_index == PyInt(row[1].b)
           x == ToPosition(x_index.v, start_x, step_x)
           y == ToPosition(y_index.v, start_y, step_y)
       IN  IF ~x_index.ok \/ ~y_index.ok THEN [st EXCEPT !.exc = "ValueError"]
           ELSE IF Abs(x) + Abs(y) <= Diamond
           THEN IF ~st.index.bound THEN [st EXCEPT !.exc = "UnboundLocalError"]
                ELSE IF st.index.v + 1 > Len(row)
                THEN [st EXCEPT !.exc = "IndexError"]
                ELSE LET z == CellFloat(row[st.index.v + 1])
                     IN  IF ~z.ok THEN [st EXCEPT !.exc = z.exc]
                         ELSE LoopState(st.index, Append(st.X_POS, x),
                                        Append(st.Y_POS, y), Append(st.ELM, z.v), "")
           ELSE st
  ELSE st

\* the loop of lines 201-212 from row k on
RECURSIVE HeatLoop(_, _, _, _)
HeatLoop(st, LIST_DATA, k, e) ==
  IF k > Len(LIST_DATA) \/ st.exc # "" THEN st
  ELSE HeatLoop(HeatRow(st, LIST_DATA[k], e), LIST_DATA, k + 1, e)

\* generate_heatmap(folderpath_edx, element_edx), lines 183-217
GenerateHeatmap(folder, e, file) ==
  IF folder = None \/ e = NoneCell THEN empty_fig_heatmap
  ELSE LET got == GetElements(file, TRUE)
       IN  IF got.kind = "raise" THEN got
           ELSE IF got.kind # "pair" THEN Raise("ValueError")
           ELSE IF \A k \in 1..Len(got.x) : got.x[k] # e THEN empty_fig_heatmap
           ELSE LET st == HeatLoop(LoopState(Unbound, <<>>, <<>>, <<>>, ""),
                                   got.data, 1, e)
                IN  IF st.exc # "" THEN Raise(st.exc)
                    ELSE Fig("Heatmap", st.X_POS, st.Y_POS, st.ELM, 0, 0,
                             HeatmapTitle(e.s))

\* a call of generate_heatmap
CallGenerateHeatmap ==
  /\ fn = "generate_heatmap" /\ pc = "call"
  /\ pc' = "done"
  /\ ret' = GenerateHeatmap(foldername, element_edx, xlsx)
  /\ UNCHANGED table_frame

-----------------------------------------------------------------------------
(* The arguments and files a call of generate_spectra is given *)

\* the scanned grid is start, start + step, ..., start + GridSteps * step
GridSteps == 16
\* positions up to Margin mm outside the grid are passed in too
Margin == 7
\* the longest document, in elements, and the longest Results block
MaxDoc == 3
MaxKids == 4
\* the longest text of an Atom element, in characters
MaxText == 2

Grid == {start_x + step * k : k \in 0..GridSteps}
PosInputs == (start_x - Margin)..(start_x + step * GridSteps + Margin)
PosArgs == {NonePos} \cup {<<p>> : p \in PosInputs}

\* sequences over S of length lo..hi
SeqsOf(S, lo, hi) == UNION {[1..n -> S] : n \in lo..hi}

Leaf(tag, text) == Elem(tag, "", text, <<>>)

\* the scalar fields of a spectrum file and its Channels field
ScalarElems ==
  {Leaf("PrimaryEnergy", <<"1", "5">>), Leaf("WorkingDistance", <<"9">>),
   Leaf("CalibLin", <<"2">>), Leaf("CalibAbs", <<"3">>),
   Leaf("Channels", <<"5", ",", "0">>), Leaf("Channels", <<"7">>)}

\* the texts of an Atom element
AtomTexts == SeqsOf({"0", "1", "7", " ", "-"}, 1, MaxText)

\* the descendants of a Results block
KidElems ==
  {Leaf("Result", <<>>), Leaf("Atom", <<"7">>), Leaf("Atom", <<"1", "2">>),
   Leaf("XLine", <<"K">>), Leaf("ExtResults", <<>>)}

Block(kids) == Elem("ClassInstance", "Results", <<>>, kids)

\* documents of scalar fields in every order
CalibDocs == SeqsOf(ScalarElems, 0, MaxDoc)
\* documents of one Results block
BlockDocs == {<<Block(kids)>> : kids \in SeqsOf(KidElems, 0, MaxKids)}
\* documents of two short Results blocks
PairDocs ==
  {<<Block(k1), Block(k2)>> : k1, k2 \in SeqsOf(KidElems, 0, MaxKids - 3)}
\* documents of one result with one Atom, in every textual form
AtomDocs ==
  {<<Block(<<Leaf("Result", <<>>), Leaf("Atom", t)>>)>> : t \in AtomTexts}

InitSpectraLocals ==
  /\ x_idx = 0 /\ y_idx = 0 /\ filepath = <<>> /\ nodes = <<>>
  /\ it = 0 /\ sub = 0 /\ voltage = 0 /\ working_distance = Unbound
  /\ energy_step = 0 /\ zero_energy = 0 /\ edx_spectra = Unbound
  /\ results_ext = <<>>

\* generate_spectra(foldername, x_pos, y_pos), every position, no file read
InitPositions ==
  /\ fn = "generate_spectra"
  /\ foldername \in {None, "F"}
  /\ x_pos \in PosArgs /\ y_pos \in PosArgs
  /\ spx = NoFile

\* generate_spectra("F", -40, -40), every file
InitDocuments ==
  /\ fn = "generate_spectra"
  /\ foldername = "F"
  /\ x_pos = <<start_x>> /\ y_pos = <<start_y>>
  /\ spx \in {File(d) : d \in CalibDocs \cup BlockDocs \cup PairDocs \cup AtomDocs}

InitSpectra ==
  /\ InitPositions \/ InitDocuments
  /\ element_edx = NoneCell
  /\ with_plot = FALSE
  /\ xlsx = NoFile
  /\ pc = "l39"
  /\ ret = NoRet
  /\ InitSpectraLocals

-----------------------------------------------------------------------------
(* The workbook a call of get_elements or generate_heatmap is given *)

\* the most element columns and the most Spectrum_ rows of a table
MaxElems == 2
MaxRows == 2

\* Spectrum_(9,9) is the centre, Spectrum_(1,13) lies on the edge of the
\* diamond, Spectrum_(1,14) lies outside it
Labels ==
  {Label(<<"9">>, <<"9">>), Label(<<"1">>, <<"1", "3">>),
   Label(<<"1">>, <<"1", "4">>)}

Header(names) == <<Str("Spectrum")>> \o [k \in 1..Len(names) |-> Str(names[k])]
\* the r-th Spectrum_ row: the cell of column c holds 10 * r + c
DataRow(label, r, n) == <<label>> \o [c \in 1..n |-> Num(10 * r + c)]
StatRow(name, cells) == <<Str(name)>> \o cells

\* header, Spectrum_ rows, totals row, two more rows
Tables ==
  UNION {
    { <<Header(names)>>
        \o [r \in 1..Len(labels) |-> DataRow(labels[r], r, n)]
        \o <<StatRow("Mean value", totals),
             StatRow("Sigma", [c \in 1..n |-> Num(1)]),
             StatRow("Sigma mean", [c \in 1..n |-> Num(1)])>>
      : names \in [1..n -> {"Fe", "Co"}],
        totals \in [1..n -> {NoneCell, Num(0), Num(5)}],
        labels \in SeqsOf(Labels, 0, MaxRows) }
    : n \in 1..MaxElems }

InitTable ==
  /\ \/ /\ fn = "get_elements"
        /\ foldername = "F"
        /\ element_edx = NoneCell
        /\ with_plot \in BOOLEAN
        /\ xlsx \in {NoFile} \cup {File(t) : t \in Tables}
     \/ /\ fn = "generate_heatmap"
        /\ foldername = "F"
        /\ element_edx \in {NoneCell, Str("Fe"), Str("Ni")}
        /\ with_plot = FALSE
        /\ xlsx \in {NoFile} \cup {File(t) : t \in Tables}
     \/ /\ fn = "generate_heatmap"
        /\ foldername = None
        /\ element_edx \in {NoneCell, Str("Fe"), Str("Ni")}
        /\ with_plot = FALSE
        /\ xlsx = NoFile
  /\ x_pos = NonePos /\ y_pos = NonePos
  /\ spx = NoFile
  /\ pc = "call"
  /\ ret = NoRet
  /\ InitSpectraLocals

-----------------------------------------------------------------------------

Init == InitSpectra \/ InitTable

(* One step of one call *)
Next ==
  \/ ComputeIndex \/ ReturnEmptySpectra \/ BuildPath \/ ParseFile
  \/ VisitPrimaryEnergy \/ VisitWorkingDistance \/ VisitCalibLin
  \/ VisitCalibAbs \/ VisitChannels \/ EnterResults \/ SkipElm
  \/ ChildResult \/ ChildParam \/ ChildExtResults \/ ChildSkip
  \/ EndResults \/ BuildFigure
  \/ CallGetElements \/ CallGenerateHeatmap

Spec == Init /\ [][Next]_vars

-----------------------------------------------------------------------------
(* Properties of the coordinate mapping *)

\* line 39 has been executed without an exception
IndexComputed ==
  /\ fn = "generate_spectra"
  /\ x_pos # NonePos /\ y_pos # NonePos
  /\ pc # "l39"

\* C1: for every position (x, y) of the grid -40, -35, ..., 40, the index
\* generate_spectra computes for it, mapped back as generate_heatmap maps the
\* index of a row name to a position, is (x, y) again.
RoundTrip ==
  (IndexComputed /\ x_pos[1] \in Grid /\ y_pos[1] \in Grid)
    => /\ ToPosition(x_idx, start_x, step_x) = x_pos[1]
       /\ ToPosition(y_idx, start_y, step_y) = y_pos[1]

\* C1: the index of the grid position (40, -35) has been computed
RoundTripWitness ==
  /\ IndexComputed /\ pc = "l42"
  /\ x_pos = <<40>> /\ y_pos = <<-35>>
  /\ x_idx = 17 /\ y_idx = 2

\* C2: generate_spectra with foldername = None ends with the fixed empty
\* plot (empty Scatter, 700 x 1300) for every x_pos and y_pos, None included.
NoFolderGivesEmptyPlot ==
  (fn = "generate_spectra" /\ foldername = None /\ pc = "done")
    => ret = empty_fig_spectra

\* C8 as stated: the index is the floor of (x - start)/step + 1 for every
\* position passed in, inside or outside the grid.
IndexIsFloor ==
  IndexComputed
    => /\ x_idx = ((x_pos[1] - start_x) \div step) + 1
       /\ y_idx = ((y_pos[1] - start_y) \div step) + 1

\* i is the integer part, toward zero, of q/step
IsTruncOf(i, q) ==
  IF q >= 0
  THEN step * i <= q /\ q < step * (i + 1)
  ELSE step * (i - 1) < q /\ q <= step * i

\* C8, amended: the index is (x - start)/step + 1 truncated toward zero, for
\* every position passed in; the file name is built from that index;
\* (-40, -40) gives Spectrum_(1,1) and (-35, -40) gives Spectrum_(2,1).
IndexIsTruncation ==
  /\ IndexComputed
       => /\ IsTruncOf(x_idx, (x_pos[1] - start_x) + step)
          /\ IsTruncOf(y_idx, (y_pos[1] - start_y) + step)
  /\ (IndexComputed /\ foldername # None /\ pc \notin {"l42", "done"})
       => filepath = <<foldername, x_idx, y_idx>>
  /\ (IndexComputed /\ x_pos = <<-40>> /\ y_pos = <<-40>>)
       => x_idx = 1 /\ y_idx = 1
  /\ (IndexComputed /\ x_pos = <<-35>> /\ y_pos = <<-40>>)
       => x_idx = 2 /\ y_idx = 1

\* C8: the file name of the position (-47, -35), outside the grid, has been
\* built: the index is (0, 2), where the floor is (-1, 2)
IndexIsTruncationWitness ==
  /\ fn = "generate_spectra" /\ pc = "l64"
  /\ x_pos = <<-47>> /\ y_pos = <<-35>>
  /\ filepath = <<"F", 0, 2>>

-----------------------------------------------------------------------------
(* Properties of get_elements and generate_heatmap *)

\* the columns (1-based; the first column is the row name) whose cell in the
\* third row from the end is a number other than 0
Quantified(rows) ==
  {k \in 2..Len(rows[Len(rows) - 2]) :
     /\ rows[Len(rows) - 2][k].kind = "num"
     /\ rows[Len(rows) - 2][k].n # 0}

\* the i-th member of a set of numbers, in increasing order
Nth(S, i) == CHOOSE k \in S : Cardinality({j \in S : j < k}) = i - 1

\* C4: for a summary table that is present, get_elements returns the header
\* entries of exactly the columns after the first whose cell in the third row
\* from the end is non-null and non-zero, in header order.
ElementsAreQuantifiedColumns ==
  (fn = "get_elements" /\ pc = "done" /\ xlsx.exists)
    => LET rows == xlsx.content
           Q    == Quantified(rows)
       IN  /\ ret.kind = (IF with_plot THEN "pair" ELSE "list")
           /\ Len(ret.x) = Cardinality(Q)
           /\ \A i \in 1..Len(ret.x) : ret.x[i] = rows[1][Nth(Q, i)]

\* C4: get_elements has returned the second of two elements, the first of
\* which has a total of 0
ElementsAreQuantifiedColumnsWitness ==
  /\ fn = "get_elements" /\ pc = "done" /\ xlsx.exists
  /\ Len(xlsx.content[1]) = 3
  /\ xlsx.content[Len(xlsx.content) - 2][2] = Num(0)
  /\ xlsx.content[Len(xlsx.content) - 2][3] = Num(5)
  /\ ret.x = <<xlsx.content[1][3]>>

\* C6: get_elements returns [] and raises nothing when the summary
\* spreadsheet of the folder does not exist.
MissingSummaryGivesEmptyList ==
  (fn = "get_elements" /\ pc = "done" /\ ~xlsx.exists)
    => ret = ListRet(<<>>)

\* C6: get_elements has returned for a folder without a summary spreadsheet
MissingSummaryGivesEmptyListWitness ==
  /\ fn = "get_elements" /\ pc = "done" /\ ~xlsx.exists /\ ~with_plot
  /\ ret.kind = "list" /\ ret.x = <<>>

\* get_elements(folder) as a caller sees it: the list, [] for a missing file
ElementOptions(file) ==
  IF file.exists
  THEN [i \in 1..Cardinality(Quantified(file.content)) |->
          file.content[1][Nth(Quantified(file.content), i)]]
  ELSE <<>>

\* C3: for a non-null folder and a non-null element that is not a member of
\* get_elements(folder), generate_heatmap returns the fixed empty plot (empty
\* Heatmap, 800 x 800) and raises nothing, also when the summary spreadsheet
\* is absent.
UnavailableElementGivesEmptyPlot ==
  (/\ fn = "generate_heatmap" /\ pc = "done"
   /\ foldername # None /\ element_edx # NoneCell
   /\ \A i \in 1..Len(ElementOptions(xlsx)) : ElementOptions(xlsx)[i] # element_edx)
    => ret = empty_fig_heatmap

\* the rows named Spectrum_(i,j) whose position lies in the diamond, in table
\* order
RECURSIVE DiamondRows(_)
DiamondRows(rows) ==
  IF rows = <<>> THEN <<>>
  ELSE LET r == Head(rows)
           x == (PyInt(r[1].a).v - 1) * 5 - 40
           y == (PyInt(r[1].b).v - 1) * 5 - 40
       IN  (IF r[1].kind = "label" /\ Abs(x) + Abs(y) <= 60
            THEN <<[x |-> x, y |-> y, row |-> r]>> ELSE <<>>)
             \o DiamondRows(Tail(rows))

\* C5: the heatmap of an available element has no point with |x| + |y| > 60
\* and has one point for every row Spectrum_(i,j) with |x| + |y| <= 60, in
\* table order, with z the cell of that row in the column by which the
\* element qualified (a column of that name with a non-null, non-zero total).
HeatmapPointsOfQualifyingColumn ==
  (/\ fn = "generate_heatmap" /\ pc = "done"
   /\ foldername # None /\ element_edx # NoneCell
   /\ \E i \in 1..Len(ElementOptions(xlsx)) : ElementOptions(xlsx)[i] = element_edx)
    => LET pts == DiamondRows(xlsx.content)
       IN  /\ ret.kind = "fig"
           /\ Len(ret.x) = Len(pts) /\ Len(ret.y) = Len(pts) /\ Len(ret.z) = Len(pts)
           /\ \A p \in 1..Len(pts) :
                /\ ret.x[p] = pts[p].x /\ ret.y[p] = pts[p].y
                /\ Abs(ret.x[p]) + Abs(ret.y[p]) <= 60
                /\ \E k \in Quantified(xlsx.content) :
                     /\ xlsx.content[1][k] = element_edx
                     /\ ret.z[p] = pts[p].row[k].n

-----------------------------------------------------------------------------
(* Properties of the walk of a spectrum file *)

\* lines 86-90 have just recorded the Atom element before position sub
JustRecordedAtom ==
  /\ fn = "generate_spectra" /\ pc = "results"
  /\ sub >= 2
  /\ ElmIter(elm)[sub - 1].tag = "Atom"

\* C7: an Atom whose number is below 10 is recorded as exactly two
\* characters, the number zero-padded on the left, and an Atom whose number
\* is 10 or more is recorded unchanged, whatever the text of the number in
\* the file.
AtomZeroPadded ==
  JustRecordedAtom
    => LET t   == ElmIter(elm)[sub - 1].text
           rec == results_ext[Len(results_ext)]
           new == rec[Len(rec)]
       IN  /\ new[1] = "Atom"
           /\ IF PyInt(t).v < 10
              THEN /\ Len(new[2]) = 2
                   /\ new[2][1] = "0"
                   /\ PyInt(new[2]) = PyInt(t)
              ELSE new[2] = t

\* the elements of a document with a tag
WithTag(doc, tag) == {k \in 1..Len(doc) : doc[k].tag = tag}
TheOne(doc, tag) == doc[CHOOSE k \in WithTag(doc, tag) : TRUE]

\* C9: for a file that holds CalibLin, CalibAbs and Channels, in any order, the
\* energy of channel k (from 0) is (k + 1) * CalibLin + CalibAbs with the values
\* of the file, and the counts keep their order.
CalibrationOrderIndependent ==
  (/\ fn = "generate_spectra" /\ pc = "done" /\ ret.kind = "fig" /\ spx.exists
   /\ Cardinality(WithTag(spx.content, "CalibLin")) = 1
   /\ Cardinality(WithTag(spx.content, "CalibAbs")) = 1
   /\ Cardinality(WithTag(spx.content, "Channels")) = 1)
    => LET lin    == PyFloat(TheOne(spx.content, "CalibLin").text).v
           abs    == PyFloat(TheOne(spx.content, "CalibAbs").text).v
           counts == PySplit(TheOne(spx.content, "Channels").text, ",")
       IN  /\ Len(ret.x) = Len(counts) /\ Len(ret.y) = Len(counts)
           /\ \A k \in 1..Len(counts) :
                /\ ret.x[k] = k * lin + abs
                /\ ret.y[k] = PyInt(counts[k]).v

IsResults(e) == e.tag = "ClassInstance" /\ e.name = "Results"

\* the elements of a walk before its first ExtResults
CutAtExt(w) ==
  IF \E p \in 1..Len(w) : w[p].tag = "ExtResults"
  THEN SubSeq(w, 1, (CHOOSE p \in 1..Len(w) :
                       /\ w[p].tag = "ExtResults"
                       /\ \A q \in 1..(p - 1) : w[q].tag # "ExtResults") - 1)
  ELSE w

\* what the walks of the Results blocks among nodes[1..i] went through
RECURSIVE WalkedBlocks(_)
WalkedBlocks(i) ==
  IF i <= 0 THEN <<>>
  ELSE WalkedBlocks(i - 1)
         \o (IF IsResults(nodes[i]) THEN CutAtExt(ElmIter(nodes[i])) ELSE <<>>)

\* what the walks went through up to this state
Walked ==
  IF pc = "results"
  THEN WalkedBlocks(it - 1) \o CutAtExt(SubSeq(ElmIter(elm), 1, sub - 1))
  ELSE WalkedBlocks(it - 1)

ResultMarkers(w) == {p \in 1..Len(w) : w[p].tag = "Result"}
\* the whitelisted attributes that follow the i-th Result marker and precede
\* the next one
AttributesOf(w, i) ==
  {p \in 1..Len(w) :
     /\ w[p].tag \in params
     /\ Cardinality({q \in ResultMarkers(w) : q < p}) = i}

\* C10: during the walks of the Results blocks, each whitelisted attribute is
\* appended, in document order, to the record of the most recent Result marker
\* before it, and nothing that follows an ExtResults marker in a walk is
\* recorded, neither a record nor an attribute.
RecordsFollowMarkers ==
  (/\ fn = "generate_spectra"
   /\ pc \in {"loop", "results"} \/ (pc = "done" /\ it > Len(nodes)))
    => LET w == Walked
       IN  /\ Len(results_ext) = Cardinality(ResultMarkers(w))
           /\ \A i \in 1..Len(results_ext) :
                /\ Len(results_ext[i]) = Cardinality(AttributesOf(w, i))
                /\ \A j \in 1..Len(results_ext[i]) :
                     LET c == w[Nth(AttributesOf(w, i), j)]
                     IN  /\ results_ext[i][j][1] = c.tag
                         /\ results_ext[i][j][2] \in {c.text, <<"0">> \o c.text}

\* C10: the walk of a block Result, XLine, ExtResults, Atom is over, with the
\* XLine recorded and the Atom not
RecordsFollowMarkersWitness ==
  /\ fn = "generate_spectra" /\ pc = "loop" /\ it = 3
  /\ spx.content = <<Block(<<Leaf("Result", <<>>), Leaf("XLine", <<"K">>),
                            Leaf("ExtResults", <<>>), Leaf("Atom", <<"7">>)>>)>>
  /\ results_ext = << << <<"XLine", <<"K">>>> >> >>

====
